---- MODULE Spec2Model ----
(***************************************************************************)
(* Model of src/main.py: the FastAPI wrapper around jugaad-data with its   *)
(* MongoDB cache.  One action per route handler (get_stock_data,           *)
(* get_index_data); the state is the module-level cache handle and the     *)
(* documents of the jugaad_cache.stock_data collection, plus a record of   *)
(* the last call served (its request, its response and the I/O it did).    *)
(***************************************************************************)
EXTENDS Integers, Sequences, FiniteSets, TLC

(***************************************************************************)
(* Bounds of the model.                                                    *)
(***************************************************************************)
\* Largest number of documents the collection is let to grow to.
MaxDocs == 2

\* Calendar days a request or an upstream row may name (days of one month).
Dates == {1, 2}

\* The symbols a caller may send, as typed (before symbol.upper()).
Symbols == {"", "infy", "INFY", "ZZZZ"}

(***************************************************************************)
(* Strings.                                                                *)
(***************************************************************************)
\* str.upper() on the strings that occur in the model.
Upper(s) ==
    CASE s = "infy"   -> "INFY"
      [] s = "Date"   -> "DATE"
      [] s = "Open"   -> "OPEN"
      [] s = "High"   -> "HIGH"
      [] s = "Low"    -> "LOW"
      [] s = "Close"  -> "CLOSE"
      [] s = "Volume" -> "VOLUME"
      [] OTHER        -> s

\* str(date) and strftime("%Y-%m-%d"): the ISO text of a day, of which the
\* model keeps the two digits of the day of the month.
IsoDate(d) == <<d \div 10, d % 10>>

(***************************************************************************)
(* The F&O symbol list (nse_fo_mkt_symbols.csv of the jugaad_data package).*)
(***************************************************************************)
get_fno_symbols == {"INFY"}

(***************************************************************************)
(* Column layouts of the frames stock_df / index_df return.                *)
(***************************************************************************)
ch_col_map ==
    [ CH_TIMESTAMP        |-> "DATE",
      CH_OPENING_PRICE    |-> "OPEN",
      CH_TRADE_HIGH_PRICE |-> "HIGH",
      CH_TRADE_LOW_PRICE  |-> "LOW",
      CH_CLOSING_PRICE    |-> "CLOSE",
      CH_TOT_TRADED_QTY   |-> "VOLUME" ]

simple_col_map ==
    [ DATE   |-> "DATE",
      OPEN   |-> "OPEN",
      HIGH   |-> "HIGH",
      LOW    |-> "LOW",
      CLOSE  |-> "CLOSE",
      VOLUME |-> "VOLUME" ]

\* The column names of each layout.
ColsA == DOMAIN ch_col_map
ColsB == DOMAIN simple_col_map

\* Layout B as an upstream that does not upper-case its headers sends it.
ColsBMixed == {"Date", "Open", "High", "Low", "Close", "Volume"}

\* The position of a canonical field among the price and volume fields.
FieldNo(name) ==
    CASE name = "OPEN"   -> 1
      [] name = "HIGH"   -> 2
      [] name = "LOW"    -> 3
      [] name = "CLOSE"  -> 4
      [] name = "VOLUME" -> 5
      [] OTHER           -> 0

\* The value a frame holds in column col of the row of day `day`: the day in
\* a date column, and in any other column a number that differs from column
\* to column and from layout to layout.
Cell(col, day) ==
    IF Upper(col) \in {"CH_TIMESTAMP", "DATE"} THEN day
    ELSE IF col \in ColsA THEN 100 + 10 * FieldNo(ch_col_map[col]) + day
    ELSE 200 + 10 * FieldNo(Upper(col)) + day

\* A pandas DataFrame: its column names, its rows (column name -> value) and
\* whether its date column holds values pandas can treat as datetimes.
Frame(cols, days, datetime_ok) ==
    [ columns     |-> cols,
      rows        |-> [i \in 1..Len(days) |-> [c \in cols |-> Cell(c, days[i])]],
      datetime_ok |-> datetime_ok ]

NoFrame == Frame({}, <<>>, TRUE)

\* What a call of stock_df / index_df may do: raise some exception, raise a
\* ValueError, return None, or return a frame.
Returned(df) == [kind |-> "frame", df |-> df]

\* The answers of the upstream the model draws from: the three failures, a
\* frame without rows, layout A in descending day order, layout B with
\* mixed-case headers and a repeated day, both layouts at once, layout A
\* with one column missing, neither layout, and dates pandas cannot parse.
UpstreamResponses ==
    { [kind |-> k, df |-> NoFrame] : k \in {"raise", "value_error", "none"} }
    \cup { Returned(Frame(ColsB, <<>>, TRUE)),
           Returned(Frame(ColsA, <<2, 1>>, TRUE)),
           Returned(Frame(ColsBMixed, <<1, 1>>, TRUE)),
           Returned(Frame(ColsA \cup ColsB, <<2, 1>>, TRUE)),
           Returned(Frame((ColsA \ {"CH_TOT_TRADED_QTY"}) \cup {"DATE"}, <<1>>, TRUE)),
           Returned(Frame({"FOO", "BAR"}, <<1>>, TRUE)),
           Returned(Frame(ColsB, <<1>>, FALSE)) }

(***************************************************************************)
(* HTTP answers.                                                           *)
(***************************************************************************)
\* A response of the route: the status code, which message the detail is
\* (one name per f-string of the source), and the records of a 200.
Http(status, detail, body) == [status |-> status, detail |-> detail, body |-> body]

\* raise HTTPException(status_code, detail).
HTTPException(status, detail) ==
    [type |-> "HTTPException", http |-> Http(status, detail, <<>>)]

\* Any other exception type, and no exception.
Raised(type) == [type |-> type, http |-> Http(500, "internal", <<>>)]
NoException == Raised("none")

\* An exception no handler of the route catches: the framework answers
\* 500 Internal Server Error.
Unhandled == Http(500, "internal", <<>>)

(***************************************************************************)
(* get_stock_data, lines 116-160: fetch and normalise.                     *)
(***************************************************************************)
\* df.columns = [col.upper() for col in df.columns]
UpperColumns(df) ==
    LET cols == {Upper(c) : c \in df.columns}
    IN  [ df EXCEPT
            !.columns = cols,
            !.rows = [i \in DOMAIN df.rows |->
                        [C \in cols |->
                           df.rows[i][CHOOSE c \in df.columns : Upper(c) = C]]] ]

\* df[list(col_map.keys())].rename(columns=col_map)
SelectRename(df, col_map) ==
    LET names == {col_map[k] : k \in DOMAIN col_map}
    IN  [ df EXCEPT
            !.columns = names,
            !.rows = [i \in DOMAIN df.rows |->
                        [n \in names |->
                           df.rows[i][CHOOSE k \in DOMAIN col_map : col_map[k] = n]]] ]

\* all(col in df.columns for col in col_map.keys())
HasLayout(df, col_map) == DOMAIN col_map \subseteq df.columns

\* Lines 156-160: DATE as ISO text, SYMBOL added, the seven fields of each
\* row in the frame's row order.
ToRecords(df, symbol) ==
    [ i \in DOMAIN df.rows |->
        [ DATE   |-> IsoDate(df.rows[i]["DATE"]),
          SYMBOL |-> symbol,
          OPEN   |-> df.rows[i]["OPEN"],
          HIGH   |-> df.rows[i]["HIGH"],
          LOW    |-> df.rows[i]["LOW"],
          CLOSE  |-> df.rows[i]["CLOSE"],
          VOLUME |-> df.rows[i]["VOLUME"] ] ]

\* Mutant: layout B is tested first.
ChooseLayoutSimpleFirst(df) ==
    IF HasLayout(df, simple_col_map) THEN "B"
    ELSE IF HasLayout(df, ch_col_map) THEN "A"
    ELSE "none"

\* Lines 145-154: the if / elif / else over the upper-cased columns: layout A
\* (the CH_ columns) is tested first, layout B only in the elif.
ChooseLayout(df) ==
    IF HasLayout(df, ch_col_map) THEN "A"
    ELSE IF HasLayout(df, simple_col_map) THEN "B"
    ELSE "none"

\* The body of the try block up to `result`: the exception it raises, or
\* none and the records.
TryFetch(symbol, resp) ==
    IF resp.kind = "raise" THEN [exc |-> Raised("Exception"), result |-> <<>>]
    ELSE IF resp.kind = "value_error" THEN [exc |-> Raised("ValueError"), result |-> <<>>]
    ELSE IF resp.kind = "none" \/ resp.df.rows = <<>>
        THEN [exc |-> HTTPException(404, "no_data"), result |-> <<>>]
    ELSE
        LET df == UpperColumns(resp.df)
        IN  IF ChooseLayout(df) = "none"
                THEN [exc |-> HTTPException(500, "unexpected_format"), result |-> <<>>]
            ELSE IF ~df.datetime_ok
                THEN [exc |-> Raised("ValueError"), result |-> <<>>]
            ELSE
                LET mapped == IF ChooseLayout(df) = "A"
                                 THEN SelectRename(df, ch_col_map)
                                 ELSE SelectRename(df, simple_col_map)
                IN  [exc |-> NoException, result |-> ToRecords(mapped, symbol)]

\* Lines 176-181: the except clauses of the try block.
ExceptClauses(exc) ==
    IF exc.type = "ValueError" THEN Http(500, "parse_error", <<>>)
    ELSE Http(500, "fetch_error", <<>>)

(***************************************************************************)
(* The cache: documents of the collection jugaad_cache.stock_data.         *)
(***************************************************************************)
\* Mutant: the text that is stored lacks the first record of the answer.
JsonDumpsTail(result) ==
    [ valid |-> TRUE,
      rows  |-> [i \in 1..(Len(result) - 1) |->
                   << result[i + 1].DATE, result[i + 1].SYMBOL, result[i + 1].OPEN,
                      result[i + 1].HIGH, result[i + 1].LOW, result[i + 1].CLOSE,
                      result[i + 1].VOLUME >>] ]

\* json.dumps(result): the records as text, one tuple of field values per
\* record in the key order of the record.
JsonDumps(result) ==
    [ valid |-> TRUE,
      rows  |-> [i \in DOMAIN result |->
                   << result[i].DATE, result[i].SYMBOL, result[i].OPEN,
                      result[i].HIGH, result[i].LOW, result[i].CLOSE,
                      result[i].VOLUME >>] ]

\* A "data" field json.loads raises on.
CorruptData == [valid |-> FALSE, rows |-> <<>>]

\* Mutant: the decode of a cached entry always fails.
JsonLoadsAlwaysRaises(data) == TRUE

\* Mutant: the decode of a cached entry never fails.
JsonLoadsNeverRaises(data) == FALSE

\* json.loads(cached["data"]) raises.
JsonLoadsRaises(data) == ~data.valid

\* json.loads(cached["data"]) when it does not raise.
JsonLoads(data) ==
    [ i \in DOMAIN data.rows |->
        [ DATE   |-> data.rows[i][1],
          SYMBOL |-> data.rows[i][2],
          OPEN   |-> data.rows[i][3],
          HIGH   |-> data.rows[i][4],
          LOW    |-> data.rows[i][5],
          CLOSE  |-> data.rows[i][6],
          VOLUME |-> data.rows[i][7] ] ]

\* Mutant: the document is stored with from_date in its to_date field.
CacheDocFromTwice(symbol, from_date, to_date, data) ==
    [ symbol    |-> symbol,
      from_date |-> IsoDate(from_date),
      to_date   |-> IsoDate(from_date),
      data      |-> data ]

\* The document insert_one stores (lines 165-170), and the filter of find_one
\* (lines 104-108) as the same three fields.
CacheDoc(symbol, from_date, to_date, data) ==
    [ symbol    |-> symbol,
      from_date |-> IsoDate(from_date),
      to_date   |-> IsoDate(to_date),
      data      |-> data ]

Matches(doc, symbol, from_date, to_date) ==
    /\ doc.symbol = symbol
    /\ doc.from_date = IsoDate(from_date)
    /\ doc.to_date = IsoDate(to_date)

\* collection.find_one(filter): the first matching document in the
\* collection's natural (insertion) order, as a sequence of zero or one.
find_one(coll, symbol, from_date, to_date) ==
    LET hits == {i \in DOMAIN coll : Matches(coll[i], symbol, from_date, to_date)}
    IN  IF hits = {} THEN <<>>
        ELSE << coll[CHOOSE i \in hits : \A j \in hits : i <= j] >>

\* collection.insert_one(doc).
insert_one(coll, doc) == Append(coll, doc)

(***************************************************************************)
(* State.                                                                  *)
(***************************************************************************)
VARIABLES
    cache_available,  \* the module global stock_cache is a collection, not None
    bool_raises,      \* the installed pymongo raises on bool(collection)
    stock_data,       \* the documents of the collection, in insertion order
    populated,        \* history: the (key, records) a call wrote after a miss
    request,          \* the last call: route and query parameters
    response,         \* the last call: its HTTP answer
    io,               \* the last call: what the lookup found, and its I/O counts
    workers           \* the calls in flight: where each thread pool worker is

vars == <<cache_available, bool_raises, stock_data, populated, request, response, io,
          workers>>

NoRequest ==
    [endpoint |-> "none", symbol |-> "", from_date |-> 1, to_date |-> 1, fno_only |-> FALSE]

NoResponse == [status |-> 0, detail |-> "none", body |-> <<>>]

\* The upstream was not called.
NotCalled == [kind |-> "not_called", df |-> NoFrame]

\* How often a step occurs in the steps of a call.
Count(steps, step) == Cardinality({i \in DOMAIN steps : steps[i] = step})

\* What a call did: what find_one came to ("skipped", "failed", "miss",
\* "corrupt", "hit"), the steps it took in the order it took them, how often
\* it called find_one, insert_one and the upstream, whether insert_one
\* raised, and what the upstream answered.
Io(lookup, steps, write_raised, answer) ==
    [lookup |-> lookup, steps |-> steps,
     cache_reads |-> Count(steps, "cache_get"),
     cache_writes |-> Count(steps, "cache_put"),
     write_raised |-> write_raised,
     upstream_calls |-> Count(steps, "fetch"),
     answer |-> answer]

NoIo == Io("none", <<>>, FALSE, NotCalled)

\* The workers that run handlers side by side.  FastAPI runs a route declared
\* with `def` (line 84) on a thread of its pool, so two calls of
\* get_stock_data interleave at their blocking calls.
NumWorkers == 2
Workers == 1..NumWorkers

\* A worker that runs no call.
Idle == [pc |-> "idle", rq |-> NoRequest, lookup |-> "none", answer |-> NotCalled]

\* Lines 51-61: stock_cache is a collection only if MONGO_URL is set and the
\* ping succeeds.  The collection outlives the process, so it may hold a
\* document from an earlier run, here one whose data no longer decodes.
Init ==
    /\ cache_available \in BOOLEAN
    /\ bool_raises \in BOOLEAN
    /\ stock_data \in
         {<<>>} \cup
         { <<CacheDoc("INFY", 1, 2, CorruptData)>> }
    /\ ~cache_available => stock_data = <<>>
    /\ populated = {}
    /\ request = NoRequest
    /\ response = NoResponse
    /\ io = NoIo
    /\ workers = [w \in Workers |-> Idle]

\* `if stock_cache:` (lines 103 and 163): False for None; for a collection,
\* True with a pymongo whose Collection defines no __bool__ (3.x) and
\* NotImplementedError with one whose Collection.__bool__ raises (4.x).
Truth ==
    IF ~cache_available THEN "false"
    ELSE IF bool_raises THEN "raises"
    ELSE "true"

\* The call ends: what the caller and the counters saw.
Finish(rq, http, iorec) ==
    /\ request' = rq
    /\ response' = http
    /\ io' = iorec
    /\ UNCHANGED <<cache_available, bool_raises, workers>>

(***************************************************************************)
(* get_stock_data.                                                         *)
(***************************************************************************)
\* Line 94: if from_date > to_date.
BadDateRange(from_date, to_date) == from_date > to_date

\* Mutant: the F&O restriction is never applied.
NotFnoSkipped(symbol, fno_only) == FALSE

\* Lines 97-99: if fno_only, and symbol not in get_fno_symbols().
NotFno(symbol, fno_only) == fno_only /\ symbol \notin get_fno_symbols

\* Mutant: a fetch whose result cannot be normalised is tried a second time.
StockStepsRetry(read, fetched, normalized, wrote) ==
    <<"validate">>
    \o (IF read THEN <<"cache_get">> ELSE <<>>)
    \o (IF fetched THEN <<"fetch">> ELSE <<>>)
    \o (IF fetched /\ ~normalized THEN <<"fetch">> ELSE <<>>)
    \o (IF normalized THEN <<"normalize">> ELSE <<>>)
    \o (IF wrote THEN <<"cache_put">> ELSE <<>>)
    \o <<"respond">>

\* Mutant: the upstream is called ahead of the cache lookup.
StockStepsFetchFirst(read, fetched, normalized, wrote) ==
    <<"validate">>
    \o (IF fetched THEN <<"fetch">> ELSE <<>>)
    \o (IF read THEN <<"cache_get">> ELSE <<>>)
    \o (IF normalized THEN <<"normalize">> ELSE <<>>)
    \o (IF wrote THEN <<"cache_put">> ELSE <<>>)
    \o <<"respond">>

\* The statements of get_stock_data a call executes, in the order of the
\* function body: the checks of lines 94-100, find_one (104), stock_df (117),
\* the normalisation up to `result` (119-160), insert_one (165), and the
\* return or raise that ends the call.
StockSteps(read, fetched, normalized, wrote) ==
    <<"validate">>
    \o (IF read THEN <<"cache_get">> ELSE <<>>)
    \o (IF fetched THEN <<"fetch">> ELSE <<>>)
    \o (IF normalized THEN <<"normalize">> ELSE <<>>)
    \o (IF wrote THEN <<"cache_put">> ELSE <<>>)
    \o <<"respond">>

\* Lines 115-181: fetch fresh, normalise, save to the cache, answer.
\* stock_df[symbol, from_date, to_date] is what stock_df may do for the call.
FetchFresh(rq, symbol, lookup, read, stock_df) ==
    \E resp \in stock_df[symbol, rq.from_date, rq.to_date] :
        LET t == TryFetch(symbol, resp)
        IN  IF t.exc.type # "none"
                THEN /\ Finish(rq, ExceptClauses(t.exc),
                               Io(lookup, StockSteps(read, TRUE, FALSE, FALSE), FALSE, resp))
                     /\ UNCHANGED <<stock_data, populated>>
            ELSE IF Truth = "false"
                THEN /\ Finish(rq, Http(200, "ok", t.result),
                               Io(lookup, StockSteps(read, TRUE, TRUE, FALSE), FALSE, resp))
                     /\ UNCHANGED <<stock_data, populated>>
            ELSE IF Truth = "raises"
                THEN /\ Finish(rq, ExceptClauses(Raised("NotImplementedError")),
                               Io(lookup, StockSteps(read, TRUE, TRUE, FALSE), FALSE, resp))
                     /\ UNCHANGED <<stock_data, populated>>
            ELSE
                \E write_ok \in BOOLEAN :
                    /\ Finish(rq, Http(200, "ok", t.result),
                              Io(lookup, StockSteps(read, TRUE, TRUE, TRUE), ~write_ok, resp))
                    /\ IF write_ok
                          THEN /\ Len(stock_data) < MaxDocs
                               /\ stock_data' =
                                    insert_one(stock_data,
                                        CacheDoc(symbol, rq.from_date, rq.to_date,
                                                 JsonDumps(t.result)))
                               /\ populated' =
                                    IF lookup = "miss"
                                       THEN populated \cup
                                            {[symbol |-> symbol, from_date |-> rq.from_date,
                                              to_date |-> rq.to_date, records |-> t.result]}
                                       ELSE populated
                          ELSE UNCHANGED <<stock_data, populated>>

\* Lines 84-181.
get_stock_data(stock_df) ==
    /\ request.endpoint = "none"
    /\ \E symbol_in \in Symbols, from_date \in Dates, to_date \in Dates,
          fno_only \in BOOLEAN :
        LET symbol == Upper(symbol_in)
            rq == [endpoint |-> "stock", symbol |-> symbol_in, from_date |-> from_date,
                   to_date |-> to_date, fno_only |-> fno_only]
            Fail(http, lookup, read) ==
                /\ Finish(rq, http,
                          Io(lookup, StockSteps(read, FALSE, FALSE, FALSE), FALSE, NotCalled))
                /\ UNCHANGED <<stock_data, populated>>
        IN  IF BadDateRange(from_date, to_date)
                THEN Fail(HTTPException(400, "date_range").http, "skipped", FALSE)
            ELSE IF NotFno(symbol, fno_only)
                THEN Fail(HTTPException(400, "not_fno").http, "skipped", FALSE)
            ELSE IF Truth = "raises"
                THEN Fail(Unhandled, "skipped", FALSE)
            ELSE IF Truth = "false"
                THEN FetchFresh(rq, symbol, "skipped", FALSE, stock_df)
            ELSE
                \E read_ok \in BOOLEAN :
                    IF ~read_ok
                        THEN Fail(Unhandled, "failed", TRUE)
                    ELSE
                        LET cached == find_one(stock_data, symbol, from_date, to_date)
                        IN  IF cached = <<>>
                                THEN FetchFresh(rq, symbol, "miss", TRUE, stock_df)
                            ELSE IF JsonLoadsRaises(cached[1].data)
                                THEN FetchFresh(rq, symbol, "corrupt", TRUE, stock_df)
                            ELSE /\ Finish(rq, Http(200, "ok", JsonLoads(cached[1].data)),
                                           Io("hit", StockSteps(TRUE, FALSE, FALSE, FALSE),
                                              FALSE, NotCalled))
                                 /\ UNCHANGED <<stock_data, populated>>

(***************************************************************************)
(* get_index_data.                                                         *)
(***************************************************************************)
\* Lines 193-203.  The frame's columns are used as they come, and only the
\* call of index_df is inside a try block.
IndexAnswer(symbol, resp) ==
    IF resp.kind \in {"raise", "value_error"} THEN Http(500, "index_fetch_error", <<>>)
    ELSE IF resp.kind = "none" THEN Unhandled
    ELSE IF resp.df.rows = <<>> THEN Http(404, "no_index_data", <<>>)
    ELSE IF "DATE" \notin resp.df.columns \/ ~resp.df.datetime_ok THEN Unhandled
    ELSE IF ~(ColsB \subseteq resp.df.columns) THEN Unhandled
    ELSE Http(200, "ok", ToRecords(resp.df, symbol))

\* The statements of get_index_data a call executes, in the order of the
\* function body: index_df (196), the normalisation (201-203), the return or
\* raise.
IndexSteps(normalized) ==
    <<"fetch">> \o (IF normalized THEN <<"normalize">> ELSE <<>>) \o <<"respond">>

\* Lines 186-203: no date check and no cache.
get_index_data(index_df) ==
    /\ request.endpoint = "none"
    /\ \E symbol_in \in Symbols, from_date \in Dates, to_date \in Dates :
        LET symbol == Upper(symbol_in)
            rq == [endpoint |-> "index", symbol |-> symbol_in, from_date |-> from_date,
                   to_date |-> to_date, fno_only |-> FALSE]
        IN  \E resp \in index_df[symbol, from_date, to_date] :
                /\ Finish(rq, IndexAnswer(symbol, resp),
                          Io("skipped", IndexSteps(IndexAnswer(symbol, resp).status = 200),
                             FALSE, resp))
                /\ UNCHANGED <<stock_data, populated>>

(***************************************************************************)
(* test_mongodb.                                                           *)
(***************************************************************************)
\* Mutant: test_mongodb declares stock_cache global, so a connection it makes
\* turns the cache on.
StockCacheRebound(available, connected) == available \/ connected

\* Lines 219-226: the function has no global statement, so mongo_client and
\* stock_cache are its locals and the module's stock_cache stays what
\* start-up made it, whether or not the connection is made.
StockCacheAfterTest(available, connected) == available

\* Lines 213-229: connects if MONGO_URL is set, prints, swallows every
\* exception and returns None.
test_mongodb ==
    /\ request.endpoint = "none"
    /\ \E mongo_url \in BOOLEAN, ping_ok \in BOOLEAN :
          cache_available' = StockCacheAfterTest(cache_available, mongo_url /\ ping_ok)
    /\ request' = [NoRequest EXCEPT !.endpoint = "test_mongodb"]
    /\ response' = Http(200, "ok", <<>>)
    /\ io' = Io("skipped", <<"respond">>, FALSE, NotCalled)
    /\ UNCHANGED <<bool_raises, stock_data, populated, workers>>

\* The answer of the call is sent and the worker is free for the next call.
Respond ==
    /\ request.endpoint # "none"
    /\ request' = NoRequest
    /\ response' = NoResponse
    /\ io' = NoIo
    /\ UNCHANGED <<cache_available, bool_raises, stock_data, populated, workers>>

(***************************************************************************)
(* Specifications.                                                         *)
(***************************************************************************)
\* The upstream may answer any call in any way.
AnyResponse ==
    [symbol \in {Upper(s) : s \in Symbols}, from_date \in Dates, to_date \in Dates |->
        UpstreamResponses]

Next ==
    \/ get_stock_data(AnyResponse)
    \/ get_index_data(AnyResponse)
    \/ test_mongodb
    \/ Respond

Spec == Init /\ [][Next]_vars

\* An upstream whose answer is a function of the call: INFY has one row for
\* each day of the range, latest first (layout A for stock_df, layout B for
\* index_df); ZZZZ has no rows; any other symbol makes it raise.
FixedFrame(cols, symbol, from_date, to_date) ==
    IF symbol = "INFY"
        THEN { Returned(Frame(cols,
                   [i \in 1..(to_date - from_date + 1) |-> to_date - i + 1], TRUE)) }
    ELSE IF symbol = "ZZZZ"
        THEN { Returned(Frame(cols, <<>>, TRUE)) }
    ELSE { [kind |-> "raise", df |-> NoFrame] }

FixedResponse ==
    [symbol \in {Upper(s) : s \in Symbols}, from_date \in Dates, to_date \in Dates |->
        FixedFrame(ColsA, symbol, from_date, to_date)]

FixedIndexResponse ==
    [symbol \in {Upper(s) : s \in Symbols}, from_date \in Dates, to_date \in Dates |->
        FixedFrame(ColsB, symbol, from_date, to_date)]

NextFixed ==
    \/ get_stock_data(FixedResponse)
    \/ get_index_data(FixedIndexResponse)
    \/ test_mongodb
    \/ Respond

SpecFixed == Init /\ [][NextFixed]_vars

(***************************************************************************)
(* get_stock_data on several workers: the same statements, one step per    *)
(* blocking call (find_one, stock_df, insert_one).  request, response and  *)
(* io hold the call that ended last, until Respond has sent it.            *)
(***************************************************************************)
\* The calls the workers serve: one key, typed in lower or in upper case.
ConcCalls ==
    { [endpoint |-> "stock", symbol |-> s, from_date |-> 1, to_date |-> 2,
       fno_only |-> FALSE] : s \in {"infy", "INFY"} }

\* What the upstream may do for them: raise, or one of two frames with
\* different records.
ConcResponse ==
    [symbol \in {Upper(s) : s \in Symbols}, from_date \in Dates, to_date \in Dates |->
        { [kind |-> "raise", df |-> NoFrame],
          Returned(Frame(ColsA, <<2, 1>>, TRUE)),
          Returned(Frame(ColsBMixed, <<1, 1>>, TRUE)) }]

\* Worker w's call ends.
Complete(w, rq, http, iorec) ==
    /\ request.endpoint = "none"
    /\ request' = rq
    /\ response' = http
    /\ io' = iorec
    /\ workers' = [workers EXCEPT ![w] = Idle]
    /\ UNCHANGED <<cache_available, bool_raises>>

\* Lines 91-113: the checks and the cache lookup.  A rejected call and a hit
\* end here; a miss and an undecodable entry go on to the fetch.
Lookup(w) ==
    /\ workers[w].pc = "idle"
    /\ \E rq \in ConcCalls :
        LET symbol == Upper(rq.symbol)
            Fail(http, lookup, read) ==
                /\ Complete(w, rq, http,
                            Io(lookup, StockSteps(read, FALSE, FALSE, FALSE), FALSE, NotCalled))
                /\ UNCHANGED <<stock_data, populated>>
            GoOn(lookup) ==
                /\ workers' = [workers EXCEPT ![w] =
                       [pc |-> "fetch", rq |-> rq, lookup |-> lookup, answer |-> NotCalled]]
                /\ UNCHANGED <<cache_available, bool_raises, stock_data, populated,
                               request, response, io>>
        IN  IF BadDateRange(rq.from_date, rq.to_date)
                THEN Fail(HTTPException(400, "date_range").http, "skipped", FALSE)
            ELSE IF NotFno(symbol, rq.fno_only)
                THEN Fail(HTTPException(400, "not_fno").http, "skipped", FALSE)
            ELSE IF Truth = "raises"
                THEN Fail(Unhandled, "skipped", FALSE)
            ELSE IF Truth = "false"
                THEN GoOn("skipped")
            ELSE
                \E read_ok \in BOOLEAN :
                    IF ~read_ok
                        THEN Fail(Unhandled, "failed", TRUE)
                    ELSE
                        LET cached == find_one(stock_data, symbol, rq.from_date, rq.to_date)
                        IN  IF cached = <<>> THEN GoOn("miss")
                            ELSE IF JsonLoadsRaises(cached[1].data) THEN GoOn("corrupt")
                            ELSE /\ Complete(w, rq,
                                        Http(200, "ok", JsonLoads(cached[1].data)),
                                        Io("hit", StockSteps(TRUE, FALSE, FALSE, FALSE),
                                           FALSE, NotCalled))
                                 /\ UNCHANGED <<stock_data, populated>>

\* Lines 116-163: the fetch and the normalisation.  A call that raises, or
\* that runs without the cache, ends here.
Fetch(w, stock_df) ==
    /\ workers[w].pc = "fetch"
    /\ LET me     == workers[w]
           rq     == me.rq
           symbol == Upper(rq.symbol)
           read   == me.lookup \in {"miss", "corrupt"}
       IN  \E resp \in stock_df[symbol, rq.from_date, rq.to_date] :
               LET t == TryFetch(symbol, resp)
               IN  IF t.exc.type # "none"
                       THEN /\ Complete(w, rq, ExceptClauses(t.exc),
                                   Io(me.lookup, StockSteps(read, TRUE, FALSE, FALSE),
                                      FALSE, resp))
                            /\ UNCHANGED <<stock_data, populated>>
                   ELSE IF Truth = "false"
                       THEN /\ Complete(w, rq, Http(200, "ok", t.result),
                                   Io(me.lookup, StockSteps(read, TRUE, TRUE, FALSE),
                                      FALSE, resp))
                            /\ UNCHANGED <<stock_data, populated>>
                   ELSE /\ workers' = [workers EXCEPT ![w] =
                               [me EXCEPT !.pc = "store", !.answer = resp]]
                        /\ UNCHANGED <<cache_available, bool_raises, stock_data,
                                       populated, request, response, io>>

\* Lines 164-174: insert_one and the return.
Store(w) ==
    /\ workers[w].pc = "store"
    /\ LET me     == workers[w]
           rq     == me.rq
           symbol == Upper(rq.symbol)
           t      == TryFetch(symbol, me.answer)
       IN  \E write_ok \in BOOLEAN :
               /\ Complete(w, rq, Http(200, "ok", t.result),
                           Io(me.lookup, StockSteps(TRUE, TRUE, TRUE, TRUE),
                              ~write_ok, me.answer))
               /\ IF write_ok
                     THEN /\ Len(stock_data) < MaxDocs
                          /\ stock_data' =
                               insert_one(stock_data,
                                   CacheDoc(symbol, rq.from_date, rq.to_date,
                                            JsonDumps(t.result)))
                          /\ populated' =
                               IF me.lookup = "miss"
                                  THEN populated \cup
                                       {[symbol |-> symbol, from_date |-> rq.from_date,
                                         to_date |-> rq.to_date, records |-> t.result]}
                                  ELSE populated
                     ELSE UNCHANGED <<stock_data, populated>>

NextConc ==
    \/ \E w \in Workers : Lookup(w)
    \/ \E w \in Workers : Fetch(w, ConcResponse)
    \/ \E w \in Workers : Store(w)
    \/ Respond

SpecConc == Init /\ [][NextConc]_vars

(***************************************************************************)
(* The vocabulary of the specification.                                    *)
(***************************************************************************)
\* The error kind a caller sees in an HTTP answer: 400 is InvalidRequest,
\* 404 NotFound, the 500 "Unexpected data format" SchemaMismatch, the 500s
\* "Error fetching ..." and "Data parse error ..." UpstreamError, and a 500
\* of the framework for an uncaught exception is none of the four.
ErrorKind(http) ==
    CASE http.status = 200 -> "Ok"
      [] http.status = 400 -> "InvalidRequest"
      [] http.status = 404 -> "NotFound"
      [] http.status = 500 /\ http.detail = "unexpected_format" -> "SchemaMismatch"
      [] http.status = 500 /\ http.detail \in
            {"fetch_error", "parse_error", "index_fetch_error"} -> "UpstreamError"
      [] OTHER -> "InternalError"

\* Lines 116-181 without the cache: what a stock call that fetches answers
\* when the upstream does `resp`.
FreshAnswer(symbol, resp) ==
    LET t == TryFetch(symbol, resp)
    IN  IF t.exc.type # "none" THEN ExceptClauses(t.exc)
        ELSE Http(200, "ok", t.result)

\* The cache entries of the key of request rq, in the order find_one sees them.
EntriesFor(coll, rq) ==
    SelectSeq(coll, LAMBDA d : /\ d.symbol = Upper(rq.symbol)
                               /\ d.from_date = IsoDate(rq.from_date)
                               /\ d.to_date = IsoDate(rq.to_date))

\* The one document a call for rq that answers `body` is to store.
ExpectedDoc(rq, body) ==
    [ symbol    |-> Upper(rq.symbol),
      from_date |-> IsoDate(rq.from_date),
      to_date   |-> IsoDate(rq.to_date),
      data      |-> JsonDumps(body) ]

\* A step that serves a stock call.
StockCall == request.endpoint = "none" /\ request'.endpoint = "stock"

\* The stock call read the cache and the read came back.
LookedUp(iorec) == iorec.cache_reads = 1 /\ iorec.lookup # "failed"

\* The place of a step in the order validate, cache-get, fetch, normalize,
\* cache-put, respond.
StepRank(step) ==
    CASE step = "validate"  -> 1
      [] step = "cache_get" -> 2
      [] step = "fetch"     -> 3
      [] step = "normalize" -> 4
      [] step = "cache_put" -> 5
      [] step = "respond"   -> 6

\* The records `body` hold, row for row and field for field, the values of
\* the columns of the upstream frame df that col_map names (the frame's
\* headers compared upper-cased, the date as ISO text).
TakenFrom(body, df, col_map) ==
    /\ Len(body) = Len(df.rows)
    /\ \A i \in DOMAIN body : \A k \in DOMAIN col_map :
          LET col   == CHOOSE c \in df.columns : Upper(c) = k
              value == df.rows[i][col]
          IN  body[i][col_map[k]] =
                 IF col_map[k] = "DATE" THEN IsoDate(value) ELSE value

\* ISO dates compare as their text does.
IsoLess(a, b) == a[1] < b[1] \/ (a[1] = b[1] /\ a[2] < b[2])

(***************************************************************************)
(* Claims.                                                                 *)
(***************************************************************************)
\* C1: a stock call whose cache lookup finds an entry whose data decodes
\* answers 200 with exactly the stored records (their text is the stored
\* text) and does not call the upstream.
C1_HitReturnsStored ==
    [][ (StockCall /\ LookedUp(io'))
        => LET found == EntriesFor(stock_data, request')
           IN  (found # <<>> /\ Head(found).data.valid)
               => /\ response'.status = 200
                  /\ JsonDumps(response'.body) = Head(found).data
                  /\ io'.upstream_calls = 0 ]_vars

\* C1 witness: a stock call was served from the cache with two records.
C1_Witness ==
    /\ request.endpoint = "stock"
    /\ io.lookup = "hit"
    /\ io.upstream_calls = 0
    /\ response.status = 200
    /\ Len(response.body) = 2

\* C2: with the cache in use, a stock call that misses and whose fetch and
\* normalisation succeed calls insert_one exactly once, with the document of
\* the request's key (upper-cased symbol, from_date, to_date) and the records
\* it answers; and once such a write is stored, every later call for the same
\* key whose lookup comes back is a hit that answers the same records and
\* does not call the upstream.
C2_MissWritesThenHits ==
    [][ StockCall
        => /\ (io'.lookup = "miss" /\ response'.status = 200)
              => /\ io'.cache_writes = 1
                 /\ stock_data' =
                      IF io'.write_raised THEN stock_data
                      ELSE Append(stock_data, ExpectedDoc(request', response'.body))
           /\ LookedUp(io')
              => \A p \in populated :
                    ( /\ p.symbol = Upper(request'.symbol)
                      /\ p.from_date = request'.from_date
                      /\ p.to_date = request'.to_date )
                    => /\ io'.lookup = "hit"
                       /\ response' = Http(200, "ok", p.records)
                       /\ io'.upstream_calls = 0 ]_vars

\* C2 witness: a call is served from the entry an earlier miss wrote, the
\* symbol typed in lower case.
C2_Witness ==
    /\ request.endpoint = "stock"
    /\ request.symbol = "infy"
    /\ io.lookup = "hit"
    /\ \E p \in populated :
          /\ p.symbol = "INFY"
          /\ p.from_date = request.from_date
          /\ p.to_date = request.to_date
          /\ p.records = response.body
          /\ Len(p.records) = 2

\* C3 (as claimed): in a stock call, an upstream frame without rows is
\* answered NotFound and an upstream exception UpstreamError.
C3_EmptyIsNotFound ==
    request.endpoint = "stock"
    => /\ (io.answer.kind = "frame" /\ io.answer.df.rows = <<>>)
          => ErrorKind(response) = "NotFound"
       /\ io.answer.kind \in {"raise", "value_error"}
          => ErrorKind(response) = "UpstreamError"

\* C4 (as claimed): a cache read that raises lets the call go on as on a
\* miss, and a cache write that raises leaves the answer a success.
C4_CacheFailureNotSurfaced ==
    request.endpoint = "stock"
    => /\ io.lookup = "failed"
          => /\ io.upstream_calls = 1
             /\ ErrorKind(response) # "InternalError"
       /\ io.write_raised => response.status = 200

\* The answer of the call with the cache disabled (stock_cache is None):
\* validation, then the fetch, with the upstream a function of the call.
NoCacheAnswer(rq) ==
    LET symbol == Upper(rq.symbol)
    IN  IF rq.endpoint = "test_mongodb"
            THEN Http(200, "ok", <<>>)
        ELSE IF rq.endpoint = "index"
            THEN IndexAnswer(symbol,
                     CHOOSE r \in FixedIndexResponse[symbol, rq.from_date, rq.to_date] : TRUE)
        ELSE IF BadDateRange(rq.from_date, rq.to_date)
            THEN HTTPException(400, "date_range").http
        ELSE IF NotFno(symbol, rq.fno_only)
            THEN HTTPException(400, "not_fno").http
        ELSE
            LET t == TryFetch(symbol,
                        CHOOSE r \in FixedResponse[symbol, rq.from_date, rq.to_date] : TRUE)
            IN  IF t.exc.type # "none" THEN ExceptClauses(t.exc)
                ELSE Http(200, "ok", t.result)

\* C5 (as claimed): with the upstream a function of the call, every call
\* answers what it answers with the cache disabled.
C5_SameOutcomeWithoutCache ==
    request.endpoint # "none" => response = NoCacheAnswer(request)

\* C6 (as claimed): a stock or index call with from_date > to_date is
\* answered InvalidRequest and does not call the upstream.
C6_BadRangeRejected ==
    (request.endpoint \in {"stock", "index"} /\ request.from_date > request.to_date)
    => /\ ErrorKind(response) = "InvalidRequest"
       /\ io.upstream_calls = 0

\* C7 (as claimed): with the cache in use, an index call reads the cache, and
\* one that fetched and succeeded writes exactly one cache entry.
C7_IndexCacheAside ==
    (request.endpoint = "index" /\ Truth = "true" /\ response.status = 200)
    => /\ io.cache_reads = 1
       /\ io.upstream_calls = 1 => io.cache_writes = 1

\* C8: a stock call with fno_only, from_date <= to_date and an upper-cased
\* symbol outside the F&O list is answered InvalidRequest without any cache
\* read, cache write or upstream call.
C8_NonFnoRejected ==
    ( /\ request.endpoint = "stock"
      /\ request.fno_only
      /\ request.from_date <= request.to_date
      /\ Upper(request.symbol) \notin get_fno_symbols )
    => /\ ErrorKind(response) = "InvalidRequest"
       /\ io.cache_reads = 0
       /\ io.cache_writes = 0
       /\ io.upstream_calls = 0

\* C8 witness: ZZZZ with fno_only was answered 400 "not in the F&O list".
C8_Witness ==
    /\ request.endpoint = "stock"
    /\ request.symbol = "ZZZZ"
    /\ request.fno_only
    /\ request.from_date <= request.to_date
    /\ response.status = 400
    /\ response.detail = "not_fno"

\* C9 (as claimed): a stock call whose upstream rows carry, upper-cased,
\* neither the full layout A nor the full layout B is answered
\* SchemaMismatch, without records.
C9_SchemaMismatchSurfaced ==
    ( /\ request.endpoint = "stock"
      /\ io.answer.kind = "frame"
      /\ io.answer.df.rows # <<>>
      /\ LET seen == {Upper(c) : c \in io.answer.df.columns}
         IN  ~(ColsA \subseteq seen) /\ ~(ColsB \subseteq seen) )
    => /\ ErrorKind(response) = "SchemaMismatch"
       /\ response.body = <<>>

\* C10 (as claimed): the records of a successful call with
\* from_date <= to_date are strictly ascending by date and all carry the
\* upper-cased symbol of the request.
C10_SortedAscending ==
    ( /\ request.endpoint \in {"stock", "index"}
      /\ request.from_date <= request.to_date
      /\ response.status = 200 )
    => /\ \A i \in 1..(Len(response.body) - 1) :
             IsoLess(response.body[i].DATE, response.body[i + 1].DATE)
       /\ \A i \in 1..Len(response.body) :
             response.body[i].SYMBOL = Upper(request.symbol)

\* C11 (as claimed): a stock or index call whose symbol is the empty string
\* is answered InvalidRequest without any cache read or upstream call.
C11_EmptySymbolRejected ==
    (request.endpoint \in {"stock", "index"} /\ request.symbol = "")
    => /\ ErrorKind(response) = "InvalidRequest"
       /\ io.cache_reads = 0
       /\ io.upstream_calls = 0

\* C12: when start-up left stock_cache None (no MONGO_URL, or the ping
\* failed), it stays None whatever is called afterwards, the collection is
\* never changed, and every call does no cache read and no cache write; a
\* stock call is never answered an internal error, and one that passes the
\* date and F&O checks goes to the upstream exactly once, as on a miss.
C12_DisabledCacheStaysOff ==
    [][ ~cache_available
        => /\ ~cache_available'
           /\ stock_data' = stock_data
           /\ request'.endpoint # "none"
              => /\ io'.cache_reads = 0
                 /\ io'.cache_writes = 0
           /\ StockCall
              => /\ ErrorKind(response') # "InternalError"
                 /\ ( /\ ~BadDateRange(request'.from_date, request'.to_date)
                      /\ ~NotFno(Upper(request'.symbol), request'.fno_only) )
                    => io'.upstream_calls = 1 ]_vars

\* C12 witness: with the cache disabled, a stock call fetched and answered
\* two records without touching the cache.
C12_Witness ==
    /\ ~cache_available
    /\ request.endpoint = "stock"
    /\ response.status = 200
    /\ Len(response.body) = 2
    /\ io.lookup = "skipped"
    /\ io.steps = <<"validate", "fetch", "normalize", "respond">>
    /\ stock_data = <<>>

\* C13: a stock call whose lookup finds an entry whose data json.loads
\* rejects does not fail on it: it calls the upstream exactly once, takes
\* the steps of a miss, and answers what the fetch path answers for what the
\* upstream did.
C13_CorruptEntryIsMiss ==
    [][ (StockCall /\ LookedUp(io'))
        => LET found == EntriesFor(stock_data, request')
           IN  (found # <<>> /\ ~Head(found).data.valid)
               => /\ io'.upstream_calls = 1
                  /\ response' = FreshAnswer(Upper(request'.symbol), io'.answer)
                  /\ io'.steps = StockSteps(TRUE, TRUE, response'.status = 200,
                                            response'.status = 200) ]_vars

\* C13 witness: a call found the undecodable entry, fetched once and answered
\* the two fetched records.
C13_Witness ==
    /\ request.endpoint = "stock"
    /\ io.lookup = "corrupt"
    /\ io.upstream_calls = 1
    /\ response.status = 200
    /\ Len(response.body) = 2

\* C14: every call, whatever its route and however it ends, calls find_one
\* at most once, insert_one at most once and the upstream at most once.
C14_AtMostOneOfEach ==
    request.endpoint # "none"
    => /\ Count(io.steps, "cache_get") <= 1
       /\ Count(io.steps, "cache_put") <= 1
       /\ Count(io.steps, "fetch") <= 1
       /\ io.cache_reads <= 1
       /\ io.cache_writes <= 1
       /\ io.upstream_calls <= 1

\* C14 witness: a stock call did all three, each once.
C14_Witness ==
    /\ request.endpoint = "stock"
    /\ io.cache_reads = 1
    /\ io.upstream_calls = 1
    /\ io.cache_writes = 1
    /\ ~io.write_raised
    /\ response.status = 200

\* C15: the steps of one stock call are strictly ordered validate, cache-get,
\* fetch, normalize, cache-put, respond: validation comes first and the
\* response last, no step comes before a step that precedes it in this
\* order, and a cache write happens only when normalisation was done and the
\* answer is the success.
C15_StepsInOrder ==
    request.endpoint = "stock"
    => /\ Head(io.steps) = "validate"
       /\ io.steps[Len(io.steps)] = "respond"
       /\ \A i \in DOMAIN io.steps : \A j \in DOMAIN io.steps :
             i < j => StepRank(io.steps[i]) < StepRank(io.steps[j])
       /\ Count(io.steps, "cache_put") > 0
          => /\ Count(io.steps, "normalize") > 0
             /\ response.status = 200

\* C15 witness: a stock call took all six steps.
C15_Witness ==
    /\ request.endpoint = "stock"
    /\ io.steps = <<"validate", "cache_get", "fetch", "normalize", "cache_put", "respond">>

\* C16: a stock call that fetched and succeeded takes every field of its
\* records from the layout A columns whenever the upper-cased headers hold
\* all of layout A, also when they hold all of layout B as well, and from
\* the layout B columns only when layout A is not complete.
C16_LayoutAFirst ==
    (request.endpoint = "stock" /\ response.status = 200 /\ io.answer.kind = "frame")
    => LET seen == {Upper(c) : c \in io.answer.df.columns}
       IN  IF ColsA \subseteq seen
              THEN TakenFrom(response.body, io.answer.df, ch_col_map)
              ELSE TakenFrom(response.body, io.answer.df, simple_col_map)

\* C16 witness: the upstream sent both layouts in one frame, with different
\* prices in the two, and the call answered the layout A prices.
C16_Witness ==
    /\ request.endpoint = "stock"
    /\ response.status = 200
    /\ io.answer.kind = "frame"
    /\ (ColsA \cup ColsB) \subseteq io.answer.df.columns
    /\ io.answer.df.rows[1]["CH_OPENING_PRICE"] # io.answer.df.rows[1]["OPEN"]
    /\ response.body[1].OPEN = io.answer.df.rows[1]["CH_OPENING_PRICE"]

\* C17 (as claimed): a stock call served from the cache answers the records
\* of the write that happened last for its key, also when two interleaved
\* calls both missed, both fetched and both wrote.
C17_LastWriteWins ==
    [][ (StockCall /\ io'.lookup = "hit")
        => LET found == EntriesFor(stock_data, request')
           IN  response'.body = JsonLoads(found[Len(found)].data) ]_vars

\* C18 (as claimed): the collection never holds two entries of one key
\* (symbol, from_date, to_date).
C18_OneEntryPerKey ==
    \A i \in DOMAIN stock_data : \A j \in DOMAIN stock_data :
        ( /\ stock_data[i].symbol = stock_data[j].symbol
          /\ stock_data[i].from_date = stock_data[j].from_date
          /\ stock_data[i].to_date = stock_data[j].to_date )
        => i = j

\* C19: a call that ends in an error leaves the collection as it was, and
\* the collection changes only by one entry being added by a stock call that
\* answers 200, the entry carrying the key of that call and, decoded, exactly
\* the records the call answers.
C19_ErrorsLeaveCacheAlone ==
    [][ /\ (request.endpoint = "none" /\ request'.endpoint # "none"
              /\ response'.status # 200)
           => stock_data' = stock_data
        /\ stock_data' # stock_data
           => /\ request.endpoint = "none"
              /\ request'.endpoint = "stock"
              /\ response'.status = 200
              /\ Len(stock_data') = Len(stock_data) + 1
              /\ SubSeq(stock_data', 1, Len(stock_data)) = stock_data
              /\ LET doc == stock_data'[Len(stock_data')]
                 IN  /\ doc.symbol = Upper(request'.symbol)
                     /\ doc.from_date = IsoDate(request'.from_date)
                     /\ doc.to_date = IsoDate(request'.to_date)
                     /\ doc.data.valid
                     /\ JsonLoads(doc.data) = response'.body ]_vars

\* C19 witness: with an entry written by an earlier call in the collection,
\* a call for which the lookup missed and the fetch was made ended in an
\* error.
C19_Witness ==
    /\ request.endpoint = "stock"
    /\ io.lookup = "miss"
    /\ io.upstream_calls = 1
    /\ response.status = 500
    /\ stock_data # <<>>
    /\ stock_data[1].data.valid
    /\ Len(JsonLoads(stock_data[1].data)) = 2

\* C20 (as claimed): once a call that found an undecodable entry for its key
\* has fetched, normalised and written (the key's entries are then the
\* undecodable one followed by the one that call wrote), the next call for
\* the same key whose lookup comes back is served from the cache and does
\* not call the upstream.
C20_CorruptEntryHealed ==
    [][ (StockCall /\ LookedUp(io'))
        => LET found == EntriesFor(stock_data, request')
           IN  ( /\ found # <<>>
                 /\ ~Head(found).data.valid
                 /\ \E i \in DOMAIN found : found[i].data.valid )
               => /\ io'.lookup = "hit"
                  /\ io'.upstream_calls = 0
                  /\ response'.status = 200 ]_vars

====
